---- MODULE Spec2Model ----
(***************************************************************************)
(* A state-machine model of src/userBehaviour.js (UserBehaviorTracker).    *)
(*                                                                         *)
(* The engine's `state` object, the host objects it touches (the window's  *)
(* listener list, media elements' listener lists, armed interval timers,   *)
(* history.pushState / replaceState, the clock) and the object heap that   *)
(* holds the result buffer are the variables.  Operators named after the   *)
(* source's functions transform a record `s` that packs all of them, so a  *)
(* call made from inside another call (stop() -> processResults() ->       *)
(* processData -> stop()) is an ordinary nested application.               *)
(***************************************************************************)
EXTENDS Integers, Sequences, FiniteSets, TLC

\* ------------------------------------------------------------------ bounds
\* start() calls that take effect
MaxSessions == 2
\* host signals (events, history calls) delivered in one behaviour
MaxEvents == 2
\* consumer-callback invocations in one behaviour
MaxFlushes == 2
\* the clock runs over 1..MaxTime
MaxTime == 3
\* registerCustomEvent calls that subscribe
MaxCustom == 1

\* ------------------------------------------------------- inputs and values
Coords == {<<1, 1>>, <<2, 2>>}
CustomNames == {"appEvent"}
MediaElementsInDocument == {"video1"}
URLs == {"/a"}
WindowSize == <<800, 600>>
\* the propagation path of a click on a button: target first, window last
ComposedPath == <<"button", "body", "html", "document", "window">>

\* processData callbacks the application may configure.  "log" is the default
\* (console.log); "cbStop" calls stop() from inside the callback; "cbRaise"
\* throws.
Consumers == {"log", "cbStop", "cbRaise"}

Fields ==
    {"userInfo", "time", "clicks", "mouseMovements", "mouseScroll",
     "keyboardActivities", "navigationHistory", "formInteractions",
     "touchEvents", "mediaInteractions", "windowSizes", "visibilityChanges",
     "customEvents"}

\* the fields of the result buffer that are plain arrays
SeqFields == Fields \ {"userInfo", "time", "clicks"}

DEFAULT_CONFIG ==
    [userInfo |-> TRUE, clicks |-> TRUE, mouseMovement |-> TRUE,
     mouseMovementInterval |-> 1, mouseScroll |-> TRUE, timeCount |-> TRUE,
     clearAfterProcess |-> TRUE, processTime |-> 15, windowResize |-> TRUE,
     visibilitychange |-> TRUE, keyboardActivity |-> TRUE,
     pageNavigation |-> TRUE, formInteractions |-> TRUE, touchEvents |-> TRUE,
     audioVideoInteraction |-> TRUE, customEventRegistration |-> TRUE,
     processData |-> "log"]

\* { ...a, ...b }: b's keys override a's
Spread(a, b) ==
    [k \in (DOMAIN a) \cup (DOMAIN b) |-> IF k \in DOMAIN b THEN b[k] ELSE a[k]]

\* history.pushState / history.replaceState as found at construction.  A method
\* value is the native function's name followed by one "proxy" per wrapper.
originalHistoryMethods ==
    [pushState |-> <<"pushState">>, replaceState |-> <<"replaceState">>]

\* a null object reference, a null state.results, a null state.mousePosition
NullRef == 0
NullResults == [f \in Fields |-> NullRef]
NoPosition == <<>>

\* handler identities: a module-level function is one object for ever (inst 0);
\* a closure is a new object each time the enclosing function runs
Handler(fn, inst, name) == [fn |-> fn, inst |-> inst, name |-> name]

VARIABLES
    config,          \* state.config
    active,          \* state.active
    listeners,       \* state.listeners: Map keyed by handler
    intervals,       \* state.intervals: Set of timer ids
    mediaElements,   \* state.mediaElements: Set of {element, event, handler}
    results,         \* state.results: null or a reference per field
    mousePosition,   \* state.mousePosition
    heap,            \* the objects results and snapshots refer to
    winListeners,    \* the window's listener list: <<type, handler, capture>>
    elemListeners,   \* media elements' listener lists: <<element, event, handler>>
    timers,          \* the host's armed interval timers: [id, fn]
    history,         \* history.pushState, history.replaceState
    location,        \* location.href
    now,             \* Date.now()
    delivered,       \* every consumer-callback invocation, in order
    returned,        \* the value the last getResults() returned (<<>>: null)
    handlerCalls,    \* invocations of a registerCustomEvent user handler
    fault,           \* the last call or callback, and how it ended
    session,         \* start() calls that took effect
    nEvents,         \* host signals delivered
    nCustom,         \* wrappers created by registerCustomEvent
    lastSample,      \* history: the sample last recorded in this session
    moveSession,     \* history: the session the cached sample arrived in
    startConfig,     \* history: state.config as the session's start() read it
    clicked,         \* history: the clicks dispatched in this session, in order
    app              \* the application and page (fixed at construction)

vars ==
    <<config, active, listeners, intervals, mediaElements, results,
      mousePosition, heap, winListeners, elemListeners, timers, history,
      location, now, delivered, returned, handlerCalls, fault, session,
      nEvents, nCustom, lastSample, moveSession, startConfig, clicked, app>>

\* all the variables as one record, with `thrown` the exception in flight,
\* `reported` the last exception the host caught in one of its callbacks,
\* `final` set while stop() makes its final flush, and `drift` the time that
\* passes while stop() runs, between its two readings of the clock
S ==
    [config |-> config, active |-> active, listeners |-> listeners,
     intervals |-> intervals, mediaElements |-> mediaElements,
     results |-> results, mousePosition |-> mousePosition, heap |-> heap,
     winListeners |-> winListeners, elemListeners |-> elemListeners,
     timers |-> timers, history |-> history, location |-> location,
     now |-> now, delivered |-> delivered, returned |-> returned,
     handlerCalls |-> handlerCalls, session |-> session, nCustom |-> nCustom,
     lastSample |-> lastSample, moveSession |-> moveSession,
     startConfig |-> startConfig, clicked |-> clicked,
     thrown |-> "none", reported |-> "none", final |-> FALSE, drift |-> 0]

\* the value an object graph has: every reference replaced by its target
Deref(h, res) ==
    [f \in Fields |->
        IF res[f] = NullRef THEN <<>> ELSE <<h[res[f]][f]>>]

Throw(s, err) == [s EXCEPT !.thrown = err]

\* ------------------------------------------------------------ result buffer
freshUserInfo ==
    [windowSize |-> WindowSize, appCodeName |-> "Mozilla",
     appName |-> "Netscape", vendor |-> "vendor", platform |-> "platform",
     userAgent |-> "agent"]

freshBuffer ==
    [f \in Fields |->
        CASE f = "userInfo" -> freshUserInfo
          [] f = "time" -> [startTime |-> 0, currentTime |-> 0, stopTime |-> 0]
          [] f = "clicks" -> [clickCount |-> 0, clickDetails |-> <<>>]
          [] OTHER -> <<>>]

\* state.results = { ...fresh objects... }
resetResults(s) ==
    LET g == Len(s.heap) + 1
    IN  [s EXCEPT
            !.heap = Append(@, freshBuffer),
            !.results = [f \in Fields |->
                IF f = "userInfo" /\ ~s.config.userInfo THEN NullRef ELSE g]]

getTimestamp(s) == s.now

\* state.results.<field>.push(record); reading a property of null throws
push(s, f, record) ==
    IF s.results = NullResults
    THEN Throw(s, "TypeError")
    ELSE [s EXCEPT !.heap[s.results[f]][f] = Append(@, record)]

handleMouseMove(s, e) ==
    [s EXCEPT !.mousePosition = <<e.x, e.y, getTimestamp(s)>>,
              !.moveSession = s.session]

\* the nodes of the path except its last two, joined target-last
clickPath(cp) ==
    LET kept == SubSeq(cp, 1, Len(cp) - 2)
    IN  [i \in 1..Len(kept) |-> kept[Len(kept) + 1 - i]]

\* handleClick that records the details of a click without counting it
handleClick_uncounted(s, e) ==
    IF s.results = NullResults
    THEN Throw(s, "TypeError")
    ELSE LET g == s.results["clicks"]
         IN  [s EXCEPT
                !.heap[g]["clicks"].clickDetails =
                    Append(@, <<e.x, e.y, clickPath(e.path), getTimestamp(s)>>)]

handleClick(s, e) ==
    IF s.results = NullResults
    THEN Throw(s, "TypeError")
    ELSE LET g == s.results["clicks"]
         IN  [s EXCEPT
                !.heap[g]["clicks"] =
                    [clickCount |-> @.clickCount + 1,
                     clickDetails |-> Append(@.clickDetails,
                        <<e.x, e.y, clickPath(e.path), getTimestamp(s)>>)]]

handleFormSubmit(s, e) ==
    push(s, "formInteractions", <<e.detail, getTimestamp(s)>>)

\* -------------------------------------------------------- host primitives
\* window.addEventListener: a (type, handler, capture) already listed is ignored
addEventListener(s, type, handler, capture) ==
    [s EXCEPT !.winListeners = @ \cup {<<type, handler, capture>>}]

removeEventListener(s, type, handler, capture) ==
    [s EXCEPT !.winListeners = @ \ {<<type, handler, capture>>}]

\* setInterval arms a timer and returns its id; a closure created by this
\* start() is the id
setInterval(s, fn) ==
    [s EXCEPT !.timers = @ \cup {[fn |-> fn, inst |-> s.session]}]

clearInterval(s, id) == [s EXCEPT !.timers = @ \ {id}]

\* new Proxy(target, {apply}): one more wrapper around target
Proxy(target) == Append(target, "proxy")

\* ------------------------------------------------------------ interception
patchHistoryMethods(s) ==
    [s EXCEPT
        !.history = [pushState |-> Proxy(originalHistoryMethods.pushState),
                     replaceState |-> Proxy(originalHistoryMethods.replaceState)]]

\* ------------------------------------------------------------------- media
mediaEvents == {"play", "pause", "ended", "volumechange"}

trackMediaElement(s, element) ==
    LET handler == Handler("mediaHandler", s.session, element)
    IN  [s EXCEPT
            !.elemListeners =
                @ \cup {<<element, ev, handler>> : ev \in mediaEvents},
            !.mediaElements =
                @ \cup {[element |-> element, event |-> ev, handler |-> handler] :
                            ev \in mediaEvents}]

\* ------------------------------------------------------------------ config
configOp(s, newConfig) ==
    [s EXCEPT !.config = Spread(DEFAULT_CONFIG, newConfig)]

\* ------------------------------------------------------------------- start
\* Map.set(handler, {type, handler, options}): one entry per handler
listenersSet(m, handler, type, capture) ==
    [h \in (DOMAIN m) \cup {handler} |->
        IF h = handler
        THEN [type |-> type, handler |-> handler, capture |-> capture]
        ELSE m[h]]

addListener(s, type, handler, capture) ==
    LET s1 == addEventListener(s, type, handler, capture)
    IN  [s1 EXCEPT !.listeners = listenersSet(@, handler, type, capture)]

navEvents == <<"popstate", "pushstate", "replacestate", "locationchange">>

RECURSIVE addNavListeners(_, _, _)
addNavListeners(s, handler, i) ==
    IF i > Len(navEvents)
    THEN s
    ELSE addNavListeners(addListener(s, navEvents[i], handler, FALSE),
                         handler, i + 1)

RECURSIVE trackAll(_, _)
trackAll(s, elements) ==
    IF elements = {}
    THEN s
    ELSE LET el == CHOOSE x \in elements : TRUE
         IN  trackAll(trackMediaElement(s, el), elements \ {el})

\* `if (state.config.processTime)`: a number is truthy unless it is 0
armsFlushTimer(cfg) == cfg.processTime # 0

startWhenIdle(s) ==
    LET s0 == [s EXCEPT !.active = TRUE, !.session = @ + 1,
                        !.lastSample = <<>>, !.startConfig = s.config,
                        !.clicked = <<>>]
        s1 == resetResults(s0)
        s2 == [s1 EXCEPT
                !.heap[s1.results["time"]]["time"].startTime = getTimestamp(s1)]
        cfg == s2.config
        inst == s2.session
        s3 == IF cfg.mouseMovement
              THEN [setInterval(
                        addListener(s2, "mousemove",
                                    Handler("handleMouseMove", 0, ""), FALSE),
                        "sampler")
                    EXCEPT !.intervals = @ \cup {[fn |-> "sampler", inst |-> inst]}]
              ELSE s2
        s4 == IF cfg.clicks
              THEN addListener(s3, "click", Handler("handleClick", 0, ""), FALSE)
              ELSE s3
        s5 == IF cfg.mouseScroll
              THEN addListener(s4, "scroll", Handler("scrollHandler", inst, ""), FALSE)
              ELSE s4
        s6 == IF cfg.windowResize
              THEN addListener(s5, "resize", Handler("resizeHandler", inst, ""), FALSE)
              ELSE s5
        s7 == IF cfg.visibilitychange
              THEN addListener(s6, "visibilitychange",
                               Handler("visibilityHandler", inst, ""), FALSE)
              ELSE s6
        s8 == IF cfg.keyboardActivity
              THEN addListener(s7, "keydown", Handler("keydownHandler", inst, ""), FALSE)
              ELSE s7
        s9 == IF cfg.pageNavigation
              THEN addNavListeners(patchHistoryMethods(s8),
                                   Handler("navHandler", inst, ""), 1)
              ELSE s8
        s10 == IF cfg.formInteractions
               THEN addListener(s9, "submit", Handler("handleFormSubmit", 0, ""), TRUE)
               ELSE s9
        s11 == IF cfg.touchEvents
               THEN addListener(s10, "touchstart", Handler("touchHandler", inst, ""), FALSE)
               ELSE s10
        s12 == IF cfg.audioVideoInteraction
               THEN trackAll(s11, MediaElementsInDocument)
               ELSE s11
    IN  IF armsFlushTimer(cfg)
        THEN [setInterval(s12, "flusher")
              EXCEPT !.intervals = @ \cup {[fn |-> "flusher", inst |-> inst]}]
        ELSE s12

\* start() without its first line
start_reenters(s) == startWhenIdle(s)

start(s) == IF s.active THEN s ELSE startWhenIdle(s)

\* ----------------------------------------------------- flush and shutdown
\* stop() that empties its Set without clearing the timers in it
clearAll_forgets(s, ids) == s

RECURSIVE clearAll(_, _)
clearAll(s, ids) ==
    IF ids = {}
    THEN s
    ELSE LET id == CHOOSE x \in ids : TRUE
         IN  clearAll(clearInterval(s, id), ids \ {id})

RECURSIVE removeAll(_, _)
removeAll(s, hs) ==
    IF hs = {}
    THEN s
    ELSE LET h == CHOOSE x \in hs : TRUE
             l == s.listeners[h]
         IN  removeAll(removeEventListener(s, l.type, l.handler, l.capture),
                       hs \ {h})

\* element.removeEventListener(event, handler) for every record of the Set
removeMedia(s) ==
    [s EXCEPT
        !.elemListeners =
            @ \ {<<m.element, m.event, m.handler>> : m \in s.mediaElements}]

\* { ...state.results }: a new top-level object holding the same references
snapshotOf(s) == s.results

\* Object.assign(state.results, preservedInfo)
preserve(s, before) ==
    IF s.config.userInfo
    THEN [s EXCEPT !.results["userInfo"] = before["userInfo"]]
    ELSE s

RECURSIVE processResults(_)
RECURSIVE stop(_)

\* state.config.processData(snapshot): what the configured callback does
processData(s, cb, snap) ==
    LET s1 == [s EXCEPT
                !.final = FALSE,
                !.delivered = Append(@,
                    [consumer |-> cb, snap |-> snap,
                     seen |-> Deref(s.heap, snap), session |-> s.session,
                     final |-> s.final, active |-> s.active,
                     armed |-> s.timers])]
    IN  CASE cb = "cbStop" -> stop(s1)
          [] cb = "cbRaise" -> Throw(s1, "ConsumerError")
          [] OTHER -> s1

processResults(s) ==
    IF s.results = NullResults
    THEN Throw(s, "TypeError")
    ELSE LET s1 == [s EXCEPT
                    !.heap[s.results["time"]]["time"].currentTime = getTimestamp(s)]
             s2 == processData(s1, s1.config.processData, snapshotOf(s1))
         IN  IF s2.thrown # "none"
             THEN s2
             ELSE IF s2.config.clearAfterProcess
                  THEN preserve(resetResults(s2), s2.results)
                  ELSE s2

\* stop() that leaves history.pushState / replaceState as it finds them
restoreHistory_skips(s) == s

\* history.pushState = originals.pushState; likewise replaceState
restoreHistory(s) == [s EXCEPT !.history = originalHistoryMethods]

\* stop() that does not record when it was called
stampStopTime_skips(s) == s

\* state.results.time.stopTime = getTimestamp()
stampStopTime(s) ==
    [s EXCEPT !.heap[s.results["time"]]["time"].stopTime = getTimestamp(s)]

\* stop() that shuts down without flushing
finalFlush_skipped(s) == s

\* this.processResults() as stop()'s last statement
finalFlush(s) == processResults(s)

stopWhenActive(s) ==
    LET s0 == [s EXCEPT !.active = FALSE]
        s1 == [clearAll(s0, s0.intervals) EXCEPT !.intervals = {}]
        s2 == [removeAll(s1, DOMAIN s1.listeners) EXCEPT !.listeners = <<>>]
        s3 == [removeMedia(s2) EXCEPT !.mediaElements = {}]
        s4 == restoreHistory(s3)
        s5 == [stampStopTime(s4) EXCEPT !.final = TRUE]
        s6 == [s5 EXCEPT !.now = @ + s5.drift, !.drift = 0]
    IN  finalFlush(s6)

\* stop() that tests for a buffer instead of the Active flag
stop_testsBuffer(s) ==
    IF s.results = NullResults THEN s ELSE stopWhenActive(s)

stop(s) == IF ~s.active THEN s ELSE stopWhenActive(s)

\* ------------------------------------------------------------ custom events
subscribeCustom(s, eventName) ==
    LET wrapper == Handler("wrappedHandler", s.nCustom + 1, eventName)
        s1 == addEventListener(s, eventName, wrapper, FALSE)
    IN  [s1 EXCEPT
            !.nCustom = @ + 1,
            !.listeners = listenersSet(@, wrapper, eventName, FALSE)]

\* registerCustomEvent() without its first line
registerCustomEvent_ungated(s, eventName) == subscribeCustom(s, eventName)

registerCustomEvent(s, eventName) ==
    IF ~s.config.customEventRegistration
    THEN s
    ELSE subscribeCustom(s, eventName)

\* structuredClone(state.results): a value that shares nothing with the heap
getResults(s) ==
    [s EXCEPT !.returned =
        IF s.results = NullResults THEN <<>> ELSE <<Deref(s.heap, s.results)>>]

getConfig(s) == s.config

\* --------------------------------------------------- listeners and timers
\* the event objects the host builds
Event(type, xy, detail) ==
    [type |-> type, x |-> xy[1], y |-> xy[2], detail |-> detail,
     path |-> ComposedPath]

scrollListener(s, e) ==
    push(s, "mouseScroll", <<0, 0, getTimestamp(s)>>)

resizeListener(s, e) ==
    push(s, "windowSizes", <<WindowSize[1], WindowSize[2], getTimestamp(s)>>)

visibilityListener(s, e) ==
    push(s, "visibilityChanges", <<"hidden", getTimestamp(s)>>)

keydownListener(s, e) ==
    push(s, "keyboardActivities", <<e.detail, getTimestamp(s)>>)

navHandler(s, e) ==
    push(s, "navigationHistory", <<s.location, getTimestamp(s)>>)

touchListener(s, e) ==
    push(s, "touchEvents", <<"touchstart", e.x, e.y, getTimestamp(s)>>)

mediaHandler(s, h, e) ==
    push(s, "mediaInteractions", <<e.type, h.name, 0, getTimestamp(s)>>)

\* the wrapper registerCustomEvent subscribes: append, then the user's handler
wrappedHandler(s, h, e) ==
    LET s1 == push(s, "customEvents",
                   [eventName |-> h.name, details |-> e.detail,
                    timestamp |-> getTimestamp(s)])
    IN  IF s1.thrown # "none"
        THEN s1
        ELSE [s1 EXCEPT !.handlerCalls = @ + 1]

invoke(s, h, e) ==
    CASE h.fn = "handleMouseMove" -> handleMouseMove(s, e)
      [] h.fn = "handleClick" -> handleClick(s, e)
      [] h.fn = "scrollHandler" -> scrollListener(s, e)
      [] h.fn = "resizeHandler" -> resizeListener(s, e)
      [] h.fn = "visibilityHandler" -> visibilityListener(s, e)
      [] h.fn = "keydownHandler" -> keydownListener(s, e)
      [] h.fn = "navHandler" -> navHandler(s, e)
      [] h.fn = "handleFormSubmit" -> handleFormSubmit(s, e)
      [] h.fn = "touchHandler" -> touchListener(s, e)
      [] h.fn = "wrappedHandler" -> wrappedHandler(s, h, e)
      [] h.fn = "mediaHandler" -> mediaHandler(s, h, e)

\* the host catches what a callback throws and goes on
caught(s) ==
    IF s.thrown # "none"
    THEN [s EXCEPT !.reported = s.thrown, !.thrown = "none"]
    ELSE s

RECURSIVE runListeners(_, _, _)
runListeners(s, hs, e) ==
    IF hs = {}
    THEN s
    ELSE LET h == CHOOSE x \in hs : TRUE
         IN  runListeners(caught(invoke(s, h, e)), hs \ {h}, e)

\* window.dispatchEvent: every listener attached for the type when it starts
dispatchEvent(s, e) ==
    runListeners(s, {l[2] : l \in {w \in s.winListeners : w[1] = e.type}}, e)

dispatchMediaEvent(s, element, e) ==
    runListeners(s,
        {l[3] : l \in {w \in s.elemListeners :
                            w[1] = element /\ w[2] = e.type}}, e)

\* the closure of the mouseMovement interval
samplerTick(s) ==
    LET recorded == s.heap[s.results["mouseMovements"]]["mouseMovements"]
        pos == s.mousePosition
    IN  IF pos # NoPosition
           /\ (\/ Len(recorded) = 0
               \/ pos[1] # recorded[Len(recorded)][1]
               \/ pos[2] # recorded[Len(recorded)][2])
        THEN [push(s, "mouseMovements", pos)
              EXCEPT !.lastSample = <<pos[1], pos[2]>>]
        ELSE s

timerTick(s, id) ==
    IF id.fn = "sampler" THEN samplerTick(s) ELSE processResults(s)

\* calling history.pushState / replaceState: the native mutation, then one
\* pair of synthesized events per wrapper around it
RECURSIVE applyWrappers(_, _, _)
applyWrappers(s, method, i) ==
    IF i > Len(method)
    THEN s
    ELSE LET ev == IF method[1] = "pushState" THEN "pushstate" ELSE "replacestate"
             s1 == dispatchEvent(s, Event(ev, <<0, 0>>, ""))
             s2 == dispatchEvent(s1, Event("locationchange", <<0, 0>>, ""))
         IN  applyWrappers(s2, method, i + 1)

callHistory(s, name, url) ==
    applyWrappers([s EXCEPT !.location = url], s.history[name], 2)

\* ------------------------------------------------------------------ actions
\* what is known of the last call: the operation, when the application logs
\* its calls of start, stop and registerCustomEvent (which may return without
\* a trace); the exception it let out to its caller; the last exception the
\* host caught in a callback
Traceless == {"start", "stop", "registerCustomEvent"}
Ended(op, t) ==
    [op |-> IF op \in Traceless /\ "log" \in app.probes THEN op ELSE "other",
     thrown |-> t.thrown, reported |-> t.reported]
NoFault(op) == [op |-> op, thrown |-> "none", reported |-> "none"]

\* The application and page the engine runs in: the overrides the application
\* passes to config(), the window events the page produces, its other signals
\* (back/forward navigation, history calls, media events), the custom event
\* names the application registers, what the application does besides (logs
\* its calls, reads the live buffer with getResults(), changes the snapshots
\* its consumer was handed), and the last instant its clock reaches.  One is chosen at
\* construction and kept.
App(configs, events, page, names, probes, clock) ==
    [configs |-> configs, events |-> events, page |-> page, names |-> names,
     probes |-> probes, clock |-> clock]

Click(c) == Event("click", c, "")

AppList ==
    <<App({[clearAfterProcess |-> FALSE]},
          {Event("mousemove", c, "") : c \in Coords}, {}, {}, {}, 1),
      App({[clicks |-> TRUE, mouseMovement |-> FALSE, processTime |-> 0]},
          {Click(c) : c \in Coords}, {}, {}, {"log"}, 1),
      App({<<>>, [pageNavigation |-> FALSE, mouseMovement |-> FALSE]},
          {}, {"popstate", "history"}, {}, {}, 1),
      App({<<>>, [customEventRegistration |-> FALSE]},
          {Event(n, <<0, 0>>, "payload") : n \in CustomNames}, {},
          CustomNames, {"log"}, 1),
      App({<<>>}, {}, {"media"}, {}, {}, 1),
      App({<<>>},
          {Event("keydown", <<0, 0>>, "a"), Event("submit", <<0, 0>>, "form1"),
           Event("touchstart", <<1, 1>>, "")}, {}, {}, {}, 1),
      App({<<>>},
          {Event("scroll", <<0, 0>>, ""), Event("resize", <<0, 0>>, ""),
           Event("visibilitychange", <<0, 0>>, "")}, {}, {}, {}, 1),
      App({[processData |-> "cbStop"]}, {Click(<<1, 1>>)}, {}, {}, {}, 1),
      App({[processData |-> "cbRaise"]}, {Click(<<1, 1>>)}, {}, {}, {}, 1),
      App({[userInfo |-> FALSE]}, {Click(<<1, 1>>)}, {}, {}, {"read"}, 1),
      App({[clearAfterProcess |-> FALSE]},
          {Click(<<1, 1>>)}, {}, {}, {"tamper"}, 1),
      App({[processTime |-> 0, clearAfterProcess |-> FALSE]},
          {}, {}, {}, {}, MaxTime),
      App({[processTime |-> -1]}, {}, {}, {}, {}, 1),
      App({<<>>}, {}, {"history"}, {}, {}, 1)>>

Apps == {AppList[i] : i \in 1..Len(AppList)}

\* the state a call leaves behind, and how it ended
Commit(op, t) ==
    /\ config' = t.config
    /\ active' = t.active
    /\ listeners' = t.listeners
    /\ intervals' = t.intervals
    /\ mediaElements' = t.mediaElements
    /\ results' = t.results
    /\ mousePosition' = t.mousePosition
    /\ heap' = t.heap
    /\ winListeners' = t.winListeners
    /\ elemListeners' = t.elemListeners
    /\ timers' = t.timers
    /\ history' = t.history
    /\ location' = t.location
    /\ delivered' = t.delivered
    /\ returned' = t.returned
    /\ handlerCalls' = t.handlerCalls
    /\ session' = t.session
    /\ nCustom' = t.nCustom
    /\ lastSample' = t.lastSample
    /\ moveSession' = t.moveSession
    /\ startConfig' = t.startConfig
    /\ clicked' = t.clicked
    /\ fault' = Ended(op, t)
    /\ now' = t.now
    /\ app' = app

Init ==
    /\ config = DEFAULT_CONFIG
    /\ active = FALSE
    /\ listeners = <<>>
    /\ intervals = {}
    /\ mediaElements = {}
    /\ results = NullResults
    /\ mousePosition = NoPosition
    /\ heap = <<>>
    /\ winListeners = {}
    /\ elemListeners = {}
    /\ timers = {}
    /\ history = originalHistoryMethods
    /\ location = "/"
    /\ now = 1
    /\ delivered = <<>>
    /\ returned = <<>>
    /\ handlerCalls = 0
    /\ fault = NoFault("other")
    /\ session = 0
    /\ nEvents = 0
    /\ nCustom = 0
    /\ lastSample = <<>>
    /\ moveSession = 0
    /\ startConfig = DEFAULT_CONFIG
    /\ clicked = <<>>
    /\ app \in Apps

CanFlush == Len(delivered) < MaxFlushes

DoConfigWith(newConfig) ==
    /\ Commit("config", configOp(S, newConfig))
    /\ UNCHANGED nEvents

DoConfig == \E newConfig \in app.configs : DoConfigWith(newConfig)

DoStart ==
    /\ active \/ session < MaxSessions
    /\ Commit("start", start(S))
    /\ UNCHANGED nEvents

\* stop(), with the clock advancing or not while it runs
DoStop ==
    /\ ~active \/ CanFlush
    /\ \E d \in 0..(IF active /\ now < app.clock THEN 1 ELSE 0) :
            Commit("stop", stop([S EXCEPT !.drift = d]))
    /\ UNCHANGED nEvents

DoProcessResults ==
    /\ CanFlush
    /\ Commit("processResults", processResults(S))
    /\ UNCHANGED nEvents

DoRegisterCustomEventFor(name) ==
    /\ ~config.customEventRegistration \/ nCustom < MaxCustom
    /\ Commit("registerCustomEvent", registerCustomEvent(S, name))
    /\ UNCHANGED nEvents

DoRegisterCustomEvent == \E name \in app.names : DoRegisterCustomEventFor(name)

DoGetResults ==
    /\ "read" \in app.probes
    /\ Commit("getResults", getResults(S))
    /\ UNCHANGED nEvents

DoGetConfig ==
    /\ getConfig(S) = config
    /\ Commit("getConfig", S)
    /\ UNCHANGED nEvents

\* history: a click dispatched while a session is Active
noteClick(s, e) ==
    IF e.type = "click" /\ s.active
    THEN [s EXCEPT !.clicked = Append(@, <<e.x, e.y>>)]
    ELSE s

\* the host dispatches a native event on the window
WindowEventOf(e) ==
    /\ nEvents < MaxEvents
    /\ nEvents' = nEvents + 1
    /\ Commit("event", dispatchEvent(noteClick(S, e), e))

WindowEvent ==
    \E e \in app.events : WindowEventOf(e)

\* back/forward navigation: the location changes and popstate is dispatched
PopStateTo(url) ==
    /\ nEvents < MaxEvents
    /\ nEvents' = nEvents + 1
    /\ Commit("event", dispatchEvent([S EXCEPT !.location = url],
                            Event("popstate", <<0, 0>>, "")))

PopState ==
    \E url \in URLs : "popstate" \in app.page /\ PopStateTo(url)

\* a media element fires one of its events
MediaEventOf(el, ev) ==
    /\ nEvents < MaxEvents
    /\ nEvents' = nEvents + 1
    /\ Commit("event", dispatchMediaEvent(S, el, Event(ev, <<0, 0>>, "")))

MediaEvent ==
    \E el \in MediaElementsInDocument, ev \in mediaEvents :
        "media" \in app.page /\ MediaEventOf(el, ev)

\* the application calls history.pushState(...) or history.replaceState(...)
HistoryCallOf(name, url) ==
    /\ nEvents < MaxEvents
    /\ nEvents' = nEvents + 1
    /\ Commit("history", callHistory(S, name, url))

HistoryCall ==
    \E name \in {"pushState", "replaceState"}, url \in URLs :
        "history" \in app.page /\ HistoryCallOf(name, url)

\* an armed interval timer fires
TimerFireOf(id) ==
    /\ id \in timers
    /\ id.fn = "flusher" => CanFlush
    /\ Commit(id.fn, caught(timerTick(S, id)))
    /\ UNCHANGED nEvents

TimerFire == \E id \in timers : TimerFireOf(id)

\* the clock advances
Tick ==
    /\ now < app.clock
    /\ now' = now + 1
    /\ UNCHANGED <<config, active, listeners, intervals, mediaElements, results,
                   mousePosition, heap, winListeners, elemListeners, timers,
                   history, location, delivered, returned, handlerCalls, fault,
                   session, nEvents, nCustom, lastSample, moveSession,
                   startConfig, clicked, app>>

\* the consumer changes the snapshot it was last handed: it overwrites a field
\* of the snapshot's userInfo record
tamper(s, i) ==
    LET snap == s.delivered[i].snap
    IN  IF snap["userInfo"] = NullRef
        THEN s
        ELSE [s EXCEPT
                !.heap[snap["userInfo"]]["userInfo"].platform = "tampered"]

ConsumerMutateOf(i) ==
    /\ i \in 1..Len(delivered)
    /\ Commit("consumer", tamper(S, i))
    /\ UNCHANGED nEvents

ConsumerMutate ==
    \E i \in {Len(delivered)} : "tamper" \in app.probes /\ ConsumerMutateOf(i)

Next ==
    \/ DoConfig
    \/ DoStart
    \/ DoStop
    \/ DoProcessResults
    \/ DoRegisterCustomEvent
    \/ DoGetResults
    \/ DoGetConfig
    \/ WindowEvent
    \/ PopState
    \/ MediaEvent
    \/ HistoryCall
    \/ TimerFire
    \/ Tick
    \/ ConsumerMutate

Spec == Init /\ [][Next]_vars

\* ------------------------------------------------------------------ claims
\* what the engine holds and what it has installed on the host
EngineView ==
    <<config, active, listeners, intervals, mediaElements, results,
      mousePosition, heap, winListeners, elemListeners, timers, history,
      location, delivered, returned, handlerCalls, session>>

Live(f) == heap[results[f]][f]
LiveValue == Deref(heap, results)

\* a step in which a session ends, in which the consumer is invoked, in which
\* a mouse sample is appended to the live buffer
SessionEnds == active /\ ~active'
FlushStep == Len(delivered') > Len(delivered)
NewDeliveries == (Len(delivered) + 1)..Len(delivered')
MouseAppended ==
    /\ results # NullResults
    /\ results' = results
    /\ Len(heap'[results["mouseMovements"]]["mouseMovements"])
            = Len(Live("mouseMovements")) + 1

Finals(d) == {i \in 1..Len(d) : d[i].final}

AllDetached ==
    /\ winListeners = {}
    /\ elemListeners = {}
    /\ timers = {}
    /\ DOMAIN listeners = {}
    /\ intervals = {}
    /\ mediaElements = {}

\* C1: a stop() that ends an Active session leaves nothing the engine
\* installed attached to the host (no window listener, no media-element
\* listener, no timer) and leaves the registry empty.
C1_StopDetachesEverything == [][SessionEnds => AllDetached']_vars

\* C2: start() called while Active changes nothing: not the buffer, not the
\* listeners, not the timers, not the history wrappers.
C2_StartWhileActiveIsNoop ==
    [][(active /\ DoStart) => UNCHANGED EngineView]_vars

\* C2 witness: start() was the last call, made in a session whose buffer
\* already held a click, and the click is still there.
C2_Witness ==
    /\ active
    /\ fault.op = "start"
    /\ Live("clicks").clickCount = 1
    /\ timers # {}

\* C3: stop() called while Idle changes nothing, does not invoke the
\* consumer and raises nothing.
C3_StopWhileIdleIsNoop ==
    [][(~active /\ DoStop) =>
            UNCHANGED EngineView /\ fault'.thrown = "none"]_vars

\* C3 witness: stop() was the last call, made before any start(), and it
\* raised nothing.
C3_Witness ==
    /\ ~active
    /\ session = 0
    /\ fault = NoFault("stop")
    /\ delivered = <<>>

\* C4: a stop() that ends a session makes exactly one final flush, its
\* consumer call finds every timer disarmed, and while Idle no timer is armed
\* (so no flush tick and no sampling tick fires until the next start()).
C4_StopDisarmsThenFlushesOnce ==
    [][/\ ~active' => timers' = {}
       /\ SessionEnds =>
            /\ Cardinality(Finals(delivered')) = Cardinality(Finals(delivered)) + 1
            /\ \A i \in NewDeliveries :
                    delivered'[i].final => delivered'[i].armed = {}
       /\ ~SessionEnds => Finals(delivered') = Finals(delivered)]_vars

\* C4 witness: a session that had armed both timers was stopped; its final
\* flush is the last consumer call and no timer is armed.
C4_Witness ==
    /\ ~active
    /\ startConfig.mouseMovement /\ startConfig.processTime # 0
    /\ session = 1
    /\ Len(delivered) = 1
    /\ delivered[1].final
    /\ timers = {}

\* C5: a snapshot handed to the consumer is independent of the live buffer:
\* no later step of the engine changes what a delivered snapshot holds, and
\* the consumer changing its snapshot changes nothing in the live buffer.
C5_SnapshotsAreIndependent ==
    [][IF ConsumerMutate
       THEN LiveValue' = LiveValue
       ELSE \A i \in 1..Len(delivered) :
                Deref(heap', delivered[i].snap) = Deref(heap, delivered[i].snap)]_vars

\* C6: with clearAfterProcess and userInfo both true, a flush leaves the live
\* buffer with the userInfo record it had, every sequence empty and
\* clickCount 0.
C6_FlushPreservesUserInfoAndClears ==
    [][(FlushStep /\ config.clearAfterProcess /\ config.userInfo) =>
            /\ results'["userInfo"] = results["userInfo"]
            /\ LiveValue'["userInfo"] = LiveValue["userInfo"]
            /\ \A f \in SeqFields : LiveValue'[f] = <<<<>>>>
            /\ LiveValue'["clicks"] =
                    <<[clickCount |-> 0, clickDetails |-> <<>>]>>]_vars

\* C7: a sampling tick appends the cached sample exactly when its coordinates
\* differ from those of the sample last recorded in the session, whatever
\* flushes came between.
SamplerFires == \E id \in timers : id.fn = "sampler" /\ TimerFireOf(id)
DiffersFromLast ==
    \/ lastSample = <<>>
    \/ <<mousePosition[1], mousePosition[2]>> # lastSample

C7_SampleRecordedOncePerCoordinate ==
    [][/\ MouseAppended => DiffersFromLast
       /\ (SamplerFires /\ mousePosition # NoPosition /\ DiffersFromLast)
            => MouseAppended]_vars

\* C8: a sampling tick appends nothing in a session in which no mouse-move
\* sample has arrived yet.
C8_NoSampleBeforeFirstMove ==
    [][MouseAppended => moveSession = session]_vars

\* C9: a custom event dispatched while Idle has no effect (the wrapper does
\* not run, nothing is appended, the user handler is not called), and a
\* stop() that ends a session leaves no wrapper subscribed.
CustomDispatch ==
    \E n \in CustomNames : WindowEventOf(Event(n, <<0, 0>>, "payload"))

C9_CustomEventsOnlyWhileActive ==
    [][/\ (~active /\ CustomDispatch) =>
            /\ heap' = heap
            /\ handlerCalls' = handlerCalls
            /\ fault'.reported = "none"
       /\ SessionEnds =>
            \A w \in winListeners' : w[2].fn # "wrappedHandler"]_vars

\* C10: a flush of an Active session behaves as the configuration read by
\* the session's start() says, whatever config() calls came since: it
\* invokes that configuration's consumer, clears the buffer exactly when that
\* configuration says so, and keeps userInfo when that configuration says so.
C10_ConfigFixedDuringSession ==
    [][(active /\ FlushStep /\ fault'.thrown = "none"
            /\ fault'.reported = "none") =>
            /\ \A i \in NewDeliveries :
                    delivered'[i].consumer = startConfig.processData
            /\ (results' # results) = startConfig.clearAfterProcess
            /\ (results' # results /\ startConfig.userInfo) =>
                    results'["userInfo"] = results["userInfo"]]_vars

\* C11: the periodic flush timer is armed only in a session whose start()
\* read a positive processTime; with processTime zero or negative no flush
\* timer exists, so the consumer is invoked by processResults() and by the
\* final flush of stop() only.
C11_FlushTimerOnlyIfPositive ==
    \A id \in timers : id.fn = "flusher" => startConfig.processTime > 0

\* C12: each history entry point is the original or one wrapper around the
\* original, never a wrapper around a wrapper; it is wrapped exactly while a
\* session that enabled pageNavigation is Active, so after every stop() both
\* are the originals again; and a call through a wrapper performs the
\* original's mutation of the location.
HistoryNames == {"pushState", "replaceState"}
WrappedOnce ==
    \A name \in HistoryNames :
        history[name] = Proxy(originalHistoryMethods[name])

C12_HistoryWrappedOnceAndRestored ==
    /\ [](/\ \A name \in HistoryNames :
                history[name] \in {originalHistoryMethods[name],
                                   Proxy(originalHistoryMethods[name])}
          /\ IF active /\ startConfig.pageNavigation
             THEN WrappedOnce
             ELSE history = originalHistoryMethods)
    /\ [][\A name \in HistoryNames, url \in URLs :
            HistoryCallOf(name, url) => location' = url]_vars

\* C12 witness: in a second session, after the first was stopped, a call went
\* through the wrapper and changed the location (on a page whose only
\* navigation is through history calls).
C12_Witness ==
    /\ active
    /\ app.page = {"history"}
    /\ session = 2
    /\ WrappedOnce
    /\ location \in URLs
    /\ Live("navigationHistory") # <<>>

\* C13: no public operation lets an exception out to its caller, in any
\* state and any call order.
C13_NoOperationRaises == fault.thrown = "none"

\* C14: the final snapshot of every session has
\* startTime <= stopTime <= currentTime.
TimeOf(d) == d.seen["time"][1]

C14_FinalSnapshotTimesOrdered ==
    \A i \in Finals(delivered) :
        /\ TimeOf(delivered[i]).startTime <= TimeOf(delivered[i]).stopTime
        /\ TimeOf(delivered[i]).stopTime <= TimeOf(delivered[i]).currentTime

\* C14 witness: a session that kept its buffer across an earlier flush was
\* stopped later than it was started, and time passed within stop().
C14_Witness ==
    /\ Len(delivered) = 2
    /\ ~delivered[1].final /\ delivered[2].final
    /\ delivered[1].session = delivered[2].session
    /\ TimeOf(delivered[2]).startTime >= 1
    /\ TimeOf(delivered[2]).startTime < TimeOf(delivered[2]).stopTime
    /\ TimeOf(delivered[2]).stopTime < TimeOf(delivered[2]).currentTime

\* C15: registerCustomEvent called while customEventRegistration is false
\* subscribes nothing, and while no wrapper has been subscribed a dispatch of
\* the event name appends nothing and calls no user handler.
NoWrapperAttached == \A w \in winListeners : w[2].fn # "wrappedHandler"

C15_GatedRegistrationSubscribesNothing ==
    [][/\ (~config.customEventRegistration /\ DoRegisterCustomEvent) =>
            /\ UNCHANGED <<winListeners, listeners, nCustom, heap, handlerCalls>>
            /\ fault'.thrown = "none"
       /\ (nCustom = 0 /\ CustomDispatch) =>
            /\ heap' = heap
            /\ handlerCalls' = handlerCalls]_vars

\* C15 witness: registerCustomEvent was the last call, made in an Active
\* session with the gate closed, and no wrapper is attached.
C15_Witness ==
    /\ active
    /\ ~config.customEventRegistration
    /\ fault = NoFault("registerCustomEvent")
    /\ NoWrapperAttached
    /\ nCustom = 0

\* C16: the first snapshot a session delivers, after n clicks were dispatched
\* in it, has clickCount n and n clickDetails entries, in dispatch order, each
\* with the x and y of its click.
FirstOfSession(i) ==
    /\ i = Len(delivered) + 1
    /\ \A j \in 1..Len(delivered) : delivered[j].session # session

ClicksOf(d) == d.seen["clicks"][1]

C16_ClicksCountedInOrder ==
    [][\A i \in NewDeliveries :
        (startConfig.clicks /\ FirstOfSession(i)) =>
            /\ ClicksOf(delivered'[i]).clickCount = Len(clicked)
            /\ Len(ClicksOf(delivered'[i]).clickDetails) = Len(clicked)
            /\ \A k \in 1..Len(clicked) :
                /\ ClicksOf(delivered'[i]).clickDetails[k][1] = clicked[k][1]
                /\ ClicksOf(delivered'[i]).clickDetails[k][2] = clicked[k][2]]_vars

\* C16 witness: with mouse sampling off and no flush timer, two clicks at
\* different places were dispatched and processResults() delivered them.
C16_Witness ==
    /\ active
    /\ ~startConfig.mouseMovement /\ startConfig.processTime = 0
    /\ Len(delivered) = 1
    /\ delivered[1].active
    /\ ClicksOf(delivered[1]).clickCount = 2
    /\ ClicksOf(delivered[1]).clickDetails[1][1] = 1
    /\ ClicksOf(delivered[1]).clickDetails[2][1] = 2

\* C17: while a session that enabled pageNavigation is Active, each call of
\* history.pushState or history.replaceState, and each popstate, appends
\* exactly one record to navigationHistory.
C17_OneRecordPerNavigation ==
    [][(active /\ startConfig.pageNavigation /\ (HistoryCall \/ PopState)) =>
            /\ results' = results
            /\ Len(heap'[results["navigationHistory"]]["navigationHistory"])
                    = Len(Live("navigationHistory")) + 1]_vars

\* C18: with clearAfterProcess true, when the consumer calls stop() during a
\* flush, the snapshot of the nested final flush holds none of the records the
\* snapshot of the enclosing flush already held.
RecordsOf(d, f) ==
    IF f = "clicks" THEN d.seen[f][1].clickDetails ELSE d.seen[f][1]

Redelivers(d1, d2) ==
    \E f \in SeqFields \cup {"clicks"} :
        /\ d1.snap[f] = d2.snap[f]
        /\ RecordsOf(d1, f) # <<>>

C18_NestedStopDeliversOnce ==
    [][(FlushStep /\ config.clearAfterProcess) =>
            \A i, j \in NewDeliveries :
                i < j => ~Redelivers(delivered'[i], delivered'[j])]_vars

\* C19: no record appended in an Active session is lost.  While the session
\* keeps its buffer, what the buffer holds stays in it; and in a step in which
\* the session gives up its buffer or ends, a snapshot delivered in that step
\* holds every record the buffer held (the consumer not raising).
Recorded == SeqFields \cup {"clicks"}
LiveRecords(h, f) ==
    IF f = "clicks" THEN h[results[f]][f].clickDetails ELSE h[results[f]][f]

IsPrefix(a, b) == Len(a) <= Len(b) /\ SubSeq(b, 1, Len(a)) = a

NoRaise == fault'.thrown = "none" /\ fault'.reported = "none"

C19_NoRecordLost ==
    [][/\ (active /\ results' = results /\ active') =>
            \A f \in Recorded :
                IsPrefix(LiveRecords(heap, f), LiveRecords(heap', f))
       /\ (active /\ (results' # results \/ ~active') /\ NoRaise) =>
            \E i \in NewDeliveries : \A f \in Recorded :
                IsPrefix(LiveRecords(heap, f), RecordsOf(delivered'[i], f))]_vars

\* C19 witness: a click was delivered by processResults() and cleared, a
\* second click was recorded and the stop() that ended the session delivered
\* it.
C19_Witness ==
    /\ ~active
    /\ Len(clicked) = 2
    /\ Len(delivered) = 2
    /\ delivered[1].active /\ delivered[2].final
    /\ Len(RecordsOf(delivered[1], "clicks")) = 1
    /\ Len(RecordsOf(delivered[2], "clicks")) = 1
    /\ delivered[1].snap["clicks"] # delivered[2].snap["clicks"]

\* C20: a signal disabled in the configuration the session's start() read has
\* an empty sequence in every snapshot of that session, whatever earlier
\* sessions had enabled.
SignalField ==
    [mouseMovement |-> "mouseMovements", clicks |-> "clicks",
     mouseScroll |-> "mouseScroll", windowResize |-> "windowSizes",
     visibilitychange |-> "visibilityChanges",
     keyboardActivity |-> "keyboardActivities",
     pageNavigation |-> "navigationHistory",
     formInteractions |-> "formInteractions", touchEvents |-> "touchEvents",
     audioVideoInteraction |-> "mediaInteractions"]

C20_DisabledSignalsStayEmpty ==
    [][\A i \in NewDeliveries :
        (delivered'[i].active \/ delivered'[i].final) =>
            \A sig \in DOMAIN SignalField :
                ~startConfig[sig] =>
                    RecordsOf(delivered'[i], SignalField[sig]) = <<>>]_vars

====
